---- MODULE Spec2Model ----
(***************************************************************************)
(* Sci-Graph Maker Pro (src/app.py): a Streamlit script.  Every user event *)
(* (a button click, a widget edit, an upload) reruns the whole script: the *)
(* data pipeline builds cond_data_list from the uploaded CSV and from the  *)
(* manual text areas, and the visualization module draws one subplot per   *)
(* condition, shows the figure and offers it for download.                 *)
(*                                                                         *)
(* Numbers.  The values typed or imported are modelled as integers.  The   *)
(* script multiplies them by 1.35, 1.15 and 0.03: those results are kept   *)
(* in hundredths (y_max_limit, y_bracket, bracket_h are 100 times the      *)
(* script's value).  bar_width and bar_gap are kept in hundredths, and an  *)
(* x coordinate (pos1, pos2, lx_s, lx_e) is kept in two-hundredths, so     *)
(* that bar_width/2 + bar_gap/2 is the integer bar_width + bar_gap.        *)
(*                                                                         *)
(* Text.  A text is a sequence of one-character strings.                   *)
(***************************************************************************)
EXTENDS Integers, Sequences, FiniteSets, TLC

\* ------------------------------------------------------------------ bounds
MaxCount == 4       \* rows the session may grow to (add_condition is capped)
MaxEdits == 2       \* widget edits in one session
MaxRunCount == 3    \* rows of a run whose widgets are enumerated
MaxCsvRows == 3     \* data rows of an enumerated CSV file
MaxLen == 3         \* characters of an enumerated text block

\* --------------------------------------------------------------- text
NL == "\n"
DigitChars == <<"0", "1", "2", "3", "4", "5", "6", "7", "8", "9">>
DigitSet == {DigitChars[k] : k \in 1..10}
Whitespace == {" ", NL}

DigitVal(c) == (CHOOSE k \in 1..10 : DigitChars[k] = c) - 1

\* str.replace(old, new) for one-character old and new
Replace(s, old, new) == [k \in 1..Len(s) |-> IF s[k] = old THEN new ELSE s[k]]

RECURSIVE SplitFrom(_, _, _, _)
SplitFrom(s, sep, cur, acc) ==
    IF s = <<>> THEN Append(acc, cur)
    ELSE IF Head(s) = sep THEN SplitFrom(Tail(s), sep, <<>>, Append(acc, cur))
    ELSE SplitFrom(Tail(s), sep, Append(cur, Head(s)), acc)

\* str.split(sep): "a\n".split("\n") = ["a", ""], "".split("\n") = [""]
Split(s, sep) == SplitFrom(s, sep, <<>>, <<>>)

RECURSIVE LStrip(_)
LStrip(s) == IF s /= <<>> /\ Head(s) \in Whitespace THEN LStrip(Tail(s)) ELSE s

RECURSIVE RStrip(_)
RStrip(s) ==
    IF s /= <<>> /\ s[Len(s)] \in Whitespace THEN RStrip(SubSeq(s, 1, Len(s) - 1)) ELSE s

\* str.strip()
Strip(s) == RStrip(LStrip(s))

Unsigned(t) == IF t /= <<>> /\ Head(t) = "-" THEN Tail(t) ELSE t

\* float(t) raises ValueError unless t is a number: over the characters of
\* the model (digits, "-", "x", separators) a number is -?[0-9]+
AllDigits(u) == u /= <<>> /\ \A k \in 1..Len(u) : u[k] \in DigitSet
IsFloat(t) == AllDigits(Unsigned(t))

RECURSIVE Decimal(_)
Decimal(t) == IF t = <<>> THEN 0 ELSE 10 * Decimal(SubSeq(t, 1, Len(t) - 1)) + DigitVal(t[Len(t)])

FloatOf(t) == IF t /= <<>> /\ Head(t) = "-" THEN 0 - Decimal(Tail(t)) ELSE Decimal(t)

\* ------------------------------------------------------- manual parsing
\* [x.strip() for x in input.replace(',', '\n').split('\n') if x.strip()]
StripAll(parts) == [k \in 1..Len(parts) |-> Strip(parts[k])]
NonEmpty(parts) == SelectSeq(parts, LAMBDA x : x /= <<>>)
Tokens(input) == NonEmpty(StripAll(Split(Replace(input, ",", NL), NL)))

\* One text area: v = [] unless the text is non-empty and every token is a
\* float; a non-float token raises inside the comprehension, the bare except
\* reports the format error and v keeps its initial [].
Floats(toks) ==
    IF \A k \in 1..Len(toks) : IsFloat(toks[k])
    THEN [vals |-> [k \in 1..Len(toks) |-> FloatOf(toks[k])], err |-> FALSE]
    ELSE [vals |-> <<>>, err |-> TRUE]

ParseBlock(input) ==
    IF input = <<>> THEN [vals |-> <<>>, err |-> FALSE] ELSE Floats(Tokens(input))

\* ------------------------------------------------------------ CSV import
\* A cell of the Value column: <<>> is a missing cell (read as NaN), <<v>>
\* holds the number v.  uploaded_csv is <<>> (no file) or <<file>>, where
\*   file.parses   pd.read_csv succeeds (otherwise it raises)
\*   file.columns  the header
\*   file.rows     the data rows, each [Group |-> name, Value |-> cell]
NoFile == <<>>

RECURSIVE UniqueLast(_)
\* The distinct values in order of last appearance (what keeping the last
\* duplicate would give)
AddNewFirst(x, rest) ==
    IF \E k \in 1..Len(rest) : rest[k] = x THEN rest ELSE <<x>> \o rest
UniqueLast(s) == IF s = <<>> THEN <<>> ELSE AddNewFirst(Head(s), UniqueLast(Tail(s)))

RECURSIVE Unique(_)
\* Series.unique(): the distinct values in order of first appearance
AddNew(seen, x) ==
    IF \E k \in 1..Len(seen) : seen[k] = x THEN seen ELSE Append(seen, x)
Unique(s) == IF s = <<>> THEN <<>> ELSE AddNew(Unique(SubSeq(s, 1, Len(s) - 1)), s[Len(s)])

GroupColumn(file) == [k \in 1..Len(file.rows) |-> file.rows[k].Group]

\* csv_df[csv_df['Group'] == g_name]['Value'].dropna().tolist()
ValuesOf(sel) == [k \in 1..Len(sel) |-> sel[k].Value[1]]
GroupValues(file, g_name) ==
    ValuesOf(SelectSeq(file.rows, LAMBDA r : r.Group = g_name /\ r.Value /= <<>>))

CsvCondition(file, g_name) ==
    [name |-> g_name, g1 |-> GroupValues(file, g_name), g2 |-> <<>>, sig |-> ""]

\* Lines 84-93: the conditions appended and the sidebar message.
CsvConditions(file, names) == [k \in 1..Len(names) |-> CsvCondition(file, names[k])]

CsvImport(csv) ==
    IF csv = NoFile THEN [conds |-> <<>>, sidebar |-> "none"]
    ELSE IF ~csv[1].parses THEN [conds |-> <<>>, sidebar |-> "error"]
    ELSE IF "Group" \in csv[1].columns /\ "Value" \in csv[1].columns
         THEN [conds |-> CsvConditions(csv[1], Unique(GroupColumn(csv[1]))),
               sidebar |-> "success"]
         ELSE [conds |-> <<>>, sidebar |-> "none"]

\* ---------------------------------------------------------- manual entry
T100 == <<"1", "0", "0", NL, "1", "0", "5", NL, "9", "8", NL, "1", "0", "2">>
T80 == <<"8", "0", NL, "7", "5", NL, "8", "5", NL, "8", "2">>

\* def_name, for the 1-based row i
DefName(i) ==
    IF i <= 4 THEN <<"DMSO", "Drug A", "Drug B", "Drug C">>[i] ELSE "Cond_" \o ToString(i)

\* def_v1, def_v2: the default text of a text area
DefV1(i, csv) == IF i = 1 /\ csv = NoFile THEN T100 ELSE <<>>
DefV2(i, csv) == IF i = 1 /\ csv = NoFile THEN T80 ELSE <<>>

DefRow(i, csv) ==
    [name |-> DefName(i), sig |-> "", input1 |-> DefV1(i, csv), input2 |-> DefV2(i, csv)]

\* Both text areas parsed in one try block: a bad first block leaves the
\* second unparsed.
OneTry(b1, b2) ==
    IF b1.err THEN [v1 |-> <<>>, err1 |-> TRUE, v2 |-> <<>>, err2 |-> FALSE]
    ELSE [v1 |-> b1.vals, err1 |-> FALSE, v2 |-> b2.vals, err2 |-> b2.err]
ParseRowOneTry(input1, input2) == OneTry(ParseBlock(input1), ParseBlock(input2))

\* Lines 117-124: the two text areas of one row are parsed each in its own
\* try block.
TwoTries(b1, b2) == [v1 |-> b1.vals, err1 |-> b1.err, v2 |-> b2.vals, err2 |-> b2.err]
ParseRow(input1, input2) == TwoTries(ParseBlock(input1), ParseBlock(input2))

\* Lines 126-127: a row is appended when it has a value.
Appended(row, p) ==
    IF p.v1 /= <<>> \/ p.v2 /= <<>>
    THEN <<[name |-> row.name, g1 |-> p.v1, g2 |-> p.v2, sig |-> row.sig]>>
    ELSE <<>>
RowConds(row) == Appended(row, ParseRow(row.input1, row.input2))

\* Lines 121, 124: st.error(f"Format error in {cond_name} - {group_name}")
Reported(i, row, p) ==
    {[row |-> i, name |-> row.name, group |-> g] :
        g \in {h \in {1, 2} : IF h = 1 THEN p.err1 ELSE p.err2}}
RowErrors(i, row) == Reported(i, row, ParseRow(row.input1, row.input2))

RECURSIVE ManualConds(_, _)
\* Lines 96-127, for the rows 1..n
ManualConds(rws, n) ==
    IF n = 0 THEN <<>> ELSE ManualConds(rws, n - 1) \o RowConds(rws[n])

ManualErrors(rws, n) == UNION {RowErrors(i, rws[i]) : i \in 1..n}

\* Lines 81-127: cond_data_list after the data pipeline
DataPipeline(csv, rws, n) == CsvImport(csv).conds \o ManualConds(rws, n)

\* --------------------------------------------------------- visualization
Range(s) == {s[k] : k \in 1..Len(s)}

\* max(s) of a non-empty list
MaxIn(S) == CHOOSE m \in S : \A x \in S : x <= m
MaxOf(s) == MaxIn(Range(s))

RECURSIVE AllVals(_)
\* Lines 145-148: all_vals
AllVals(cdl) ==
    IF cdl = <<>> THEN <<>>
    ELSE AllVals(SubSeq(cdl, 1, Len(cdl) - 1)) \o cdl[Len(cdl)].g1 \o cdl[Len(cdl)].g2

\* Line 152, in hundredths
YMaxLimit(y_max, all_vals) ==
    IF y_max > 0 THEN y_max * 100
    ELSE IF all_vals /= <<>> THEN MaxOf(all_vals) * 135 ELSE 100 * 100

\* Positions taken from whether any condition of the figure has each group
PositionsAnyGroup(cdl, i, b_width, b_gap) ==
    IF (\E k \in 1..Len(cdl) : cdl[k].g1 /= <<>>) /\ (\E k \in 1..Len(cdl) : cdl[k].g2 /= <<>>)
    THEN [pos1 |-> 0 - (b_width + b_gap), pos2 |-> b_width + b_gap]
    ELSE [pos1 |-> 0, pos2 |-> 0]

\* Lines 156-161: pos1, pos2 of subplot i, in two-hundredths
Positions(cdl, i, b_width, b_gap) ==
    IF cdl[i].g1 /= <<>> /\ cdl[i].g2 /= <<>>
    THEN [pos1 |-> 0 - (b_width + b_gap), pos2 |-> b_width + b_gap]
    ELSE [pos1 |-> 0, pos2 |-> 0]

\* Lines 200-203: tks
Ticks(data, pos) ==
    (IF data.g1 /= <<>> THEN <<pos.pos1>> ELSE <<>>)
        \o (IF data.g2 /= <<>> THEN <<pos.pos2>> ELSE <<>>)

\* c_max over the values present only, an absent group not counted
CMaxPresentOnly(data) == MaxOf(data.g1 \o data.g2)

\* Line 210: c_max
CMax(data) ==
    MaxOf(<<IF data.g1 /= <<>> THEN MaxOf(data.g1) ELSE 0,
            IF data.g2 /= <<>> THEN MaxOf(data.g2) ELSE 0>>)

\* Lines 209-215: the bracket drawn on one subplot, <<>> when none is;
\* y_bracket and bracket_h in hundredths, lx_s and lx_e in two-hundredths
\* (0.2 is 40 two-hundredths)
BracketAt(data, pos, c_max) ==
    [lx_s |-> IF data.g1 /= <<>> /\ data.g2 /= <<>> THEN pos.pos1 ELSE pos.pos1 - 40,
     lx_e |-> IF data.g1 /= <<>> /\ data.g2 /= <<>> THEN pos.pos2 ELSE pos.pos1 + 40,
     y_bracket |-> c_max * 115,
     bracket_h |-> c_max * 3,
     label |-> data.sig]
Bracket(data, pos) == IF data.sig /= "" THEN <<BracketAt(data, pos, CMax(data))>> ELSE <<>>

\* Lines 155-236: one pass of the rendering loop
AxisAt(data, pos, y_max_limit) ==
    [title |-> data.name,
     pos1 |-> pos.pos1, pos2 |-> pos.pos2,
     tks |-> Ticks(data, pos),
     ylim |-> y_max_limit,
     bracket |-> Bracket(data, pos)]
Axis(cdl, i, y_max_limit, b_width, b_gap) ==
    AxisAt(cdl[i], Positions(cdl, i, b_width, b_gap), y_max_limit)

\* The steps of the try block (lines 134-252) in order, and where an
\* exception is raised: [step |-> "none"] when none is.  Any call of the
\* block into matplotlib or streamlit may raise.
\*   "setup"     lines 135-152: plt.subplots, suptitle, the global scale
\*   "axis", i   lines 156-236: the pass of the loop for subplot i
\*   "legend"    lines 239-243
\*   "pyplot"    line 245: st.pyplot(fig)
\*   "savefig"   lines 248-249: fig.savefig at 300 dpi
\*   "download"  lines 250-252: st.download_button
FailPoints(n) ==
    {[step |-> s, i |-> 0] : s \in {"none", "setup", "legend", "pyplot", "savefig", "download"}}
        \cup {[step |-> "axis", i |-> k] : k \in 1..n}

\* The 1-based position of a step among the n + 5 steps of the block
StepNo(step, i, n) ==
    CASE step = "setup" -> 1
      [] step = "axis" -> 1 + i
      [] step = "legend" -> n + 2
      [] step = "pyplot" -> n + 3
      [] step = "savefig" -> n + 4
      [] step = "download" -> n + 5
      [] OTHER -> n + 6

\* A step runs to its end iff it comes before the step that raises.
Completes(step, i, n, fail) == StepNo(step, i, n) < StepNo(fail.step, fail.i, n)

\* Lines 132-257: what one run shows for cond_data_list = cdl
\* Lines 133-255: the try block on the n conditions of cdl
Figure(cdl, n, limit, b_width, b_gap, fail) ==
    [info |-> FALSE,
     axes |-> [k \in 1..Cardinality({j \in 1..n : Completes("axis", j, n, fail)}) |->
                 Axis(cdl, k, limit, b_width, b_gap)],
     fig_shown |-> Completes("pyplot", 0, n, fail),
     download_offered |-> Completes("download", 0, n, fail),
     vis_error |-> fail.step /= "none"]

Render(cdl, y_max, b_width, b_gap, fail) ==
    IF cdl = <<>>
    THEN [info |-> TRUE, axes |-> <<>>, fig_shown |-> FALSE,
          download_offered |-> FALSE, vis_error |-> FALSE]
    ELSE Figure(cdl, Len(cdl), YMaxLimit(y_max, AllVals(cdl)), b_width, b_gap, fail)

\* ------------------------------------------------------------------ state
VARIABLES
    cond_count,        \* st.session_state.cond_count
    uploaded_csv,      \* the file uploader: NoFile or <<file>>
    rows,              \* rows[i], i in 1..cond_count: the widgets of row i
    manual_y_max,      \* "Fixed Y-axis Max (0 for Auto)"
    bar_width,         \* "Element Width", hundredths
    bar_gap,           \* "Group Gap", hundredths
    edits,             \* widget edits made so far in the session
    pc,                \* "pending": the script has not run yet; "done"
    cond_data_list,    \* what the last run built
    sidebar_msg,       \* "none", "success" or "error": the CSV message
    format_errors,     \* the format errors the last run reported
    info_shown,        \* the last run ended in st.info("Awaiting input")
    axes,              \* the subplots the last run drew to the end
    fig_shown,         \* the last run displayed the figure (st.pyplot)
    download_offered,  \* the last run offered the image for download
    vis_error          \* the last run reported "Visualization Error"

widgets == <<uploaded_csv, rows, manual_y_max, bar_width, bar_gap>>
outputs == <<cond_data_list, sidebar_msg, format_errors, info_shown, axes, fig_shown,
             download_offered, vis_error>>
vars == <<cond_count, widgets, edits, pc, outputs>>

\* Lines 19-20
InitialCount == 3
\* Lines 65-66: the sliders' defaults
DefaultBarWidth == 60
DefaultBarGap == 5

\* Lines 22-23
add_condition(count) == count + 1

\* remove_condition without its guard
remove_unguarded(count) == count - 1

\* Lines 25-27
remove_condition(count) == IF count > 1 THEN count - 1 ELSE count

\* One run of the script, lines 81-257, on the widgets given.
Shows(r) ==
    /\ info_shown' = r.info
    /\ axes' = r.axes
    /\ fig_shown' = r.fig_shown
    /\ download_offered' = r.download_offered
    /\ vis_error' = r.vis_error

\* The visualization module on cond_data_list = cdl; an exception is raised
\* at any step of the try block, or at none.
Visualize(cdl, y_max, b_width, b_gap) ==
    \E fail \in (IF cdl = <<>> THEN {[step |-> "none", i |-> 0]} ELSE FailPoints(Len(cdl))) :
        Shows(Render(cdl, y_max, b_width, b_gap, fail))

Script(n, csv, rws, y_max, b_width, b_gap) ==
    /\ cond_data_list' = DataPipeline(csv, rws, n)
    /\ sidebar_msg' = CsvImport(csv).sidebar
    /\ format_errors' = ManualErrors(rws, n)
    /\ pc' = "done"
    /\ Visualize(cond_data_list', y_max, b_width, b_gap)

NoOutput ==
    /\ cond_data_list = <<>>
    /\ sidebar_msg = "none"
    /\ format_errors = {}
    /\ info_shown = FALSE
    /\ axes = <<>>
    /\ fig_shown = FALSE
    /\ download_offered = FALSE
    /\ vis_error = FALSE

\* A new session: the widgets hold their defaults, the script has not run.
Init ==
    /\ cond_count = InitialCount
    /\ uploaded_csv = NoFile
    /\ rows = [i \in 1..InitialCount |-> DefRow(i, NoFile)]
    /\ manual_y_max = 0
    /\ bar_width = DefaultBarWidth
    /\ bar_gap = DefaultBarGap
    /\ edits = 0
    /\ pc = "pending"
    /\ NoOutput

\* The first run of the script in a session.
FirstRun ==
    /\ pc = "pending"
    /\ Script(cond_count, uploaded_csv, rows, manual_y_max, bar_width, bar_gap)
    /\ UNCHANGED <<cond_count, widgets, edits>>

\* Line 50: the button runs add_condition, then the script; the new row's
\* widgets hold their defaults.
AddCondition ==
    /\ pc = "done"
    /\ cond_count < MaxCount
    /\ cond_count' = add_condition(cond_count)
    /\ rows' = [i \in 1..cond_count' |->
                  IF i <= cond_count THEN rows[i] ELSE DefRow(i, uploaded_csv)]
    /\ Script(cond_count', uploaded_csv, rows', manual_y_max, bar_width, bar_gap)
    /\ UNCHANGED <<uploaded_csv, manual_y_max, bar_width, bar_gap, edits>>

\* Lines 51-52: the button exists only while cond_count > 1; it runs
\* remove_condition, then the script; the widgets of a row that is no
\* longer drawn are dropped.
RemoveCondition ==
    /\ pc = "done"
    /\ cond_count > 1
    /\ cond_count' = remove_condition(cond_count)
    /\ rows' = [i \in 1..cond_count' |-> rows[i]]
    /\ Script(cond_count', uploaded_csv, rows', manual_y_max, bar_width, bar_gap)
    /\ UNCHANGED <<uploaded_csv, manual_y_max, bar_width, bar_gap, edits>>

\* ------------------------------------------------- what the user enters
\* Texts typed into a text area: "7, 200" and a blank line; a block with a
\* non-numeric token; a negative number; blanks only.
T7 == <<"7", ",", " ", "2", "0", "0", NL, NL>>
TBad == <<"3", ",", "x">>
TNeg == <<"-", "4">>
TBlank == <<" ", NL>>
EditTexts == {<<>>, T7, TBad}
Sigs == {"", "**"}
YMaxChoices == {0 - 1, 0, 50}
Widths == {DefaultBarWidth, 150}
Gaps == {DefaultBarGap, 0}

File(ok, cols, rws) == [parses |-> ok, columns |-> cols, rows |-> rws]
Cell(g, v) == [Group |-> g, Value |-> v]

\* Files uploaded in a session: one pd.read_csv cannot parse, one without the
\* Value column, the file X,1 X,2 Y,5, one whose only group has no value,
\* and one with a group of values and a group without.
CsvChoices ==
    {File(FALSE, {}, <<>>),
     File(TRUE, {"Group", "Score"}, <<Cell("X", <<1>>)>>),
     File(TRUE, {"Group", "Value"}, <<Cell("X", <<1>>), Cell("X", <<2>>), Cell("Y", <<5>>)>>),
     File(TRUE, {"Group", "Value"}, <<Cell("X", <<>>)>>),
     File(TRUE, {"Group", "Value"}, <<Cell("X", <<300>>), Cell("Y", <<>>)>>)}

\* ------------------------------------------------------- widget events
\* Each event changes one widget and reruns the script.
CanEdit == pc = "done" /\ edits < MaxEdits

EditInput1(i, t) ==
    /\ CanEdit
    /\ rows[i].input1 /= t
    /\ rows' = [rows EXCEPT ![i].input1 = t]
    /\ edits' = edits + 1
    /\ Script(cond_count, uploaded_csv, rows', manual_y_max, bar_width, bar_gap)
    /\ UNCHANGED <<cond_count, uploaded_csv, manual_y_max, bar_width, bar_gap>>

EditInput2(i, t) ==
    /\ CanEdit
    /\ rows[i].input2 /= t
    /\ rows' = [rows EXCEPT ![i].input2 = t]
    /\ edits' = edits + 1
    /\ Script(cond_count, uploaded_csv, rows', manual_y_max, bar_width, bar_gap)
    /\ UNCHANGED <<cond_count, uploaded_csv, manual_y_max, bar_width, bar_gap>>

EditSig(i, sg) ==
    /\ CanEdit
    /\ rows[i].sig /= sg
    /\ rows' = [rows EXCEPT ![i].sig = sg]
    /\ edits' = edits + 1
    /\ Script(cond_count, uploaded_csv, rows', manual_y_max, bar_width, bar_gap)
    /\ UNCHANGED <<cond_count, uploaded_csv, manual_y_max, bar_width, bar_gap>>

SetManualYMax(y) ==
    /\ CanEdit
    /\ manual_y_max /= y
    /\ manual_y_max' = y
    /\ edits' = edits + 1
    /\ Script(cond_count, uploaded_csv, rows, y, bar_width, bar_gap)
    /\ UNCHANGED <<cond_count, uploaded_csv, rows, bar_width, bar_gap>>

SetBarWidth(w) ==
    /\ CanEdit
    /\ bar_width /= w
    /\ bar_width' = w
    /\ edits' = edits + 1
    /\ Script(cond_count, uploaded_csv, rows, manual_y_max, w, bar_gap)
    /\ UNCHANGED <<cond_count, uploaded_csv, rows, manual_y_max, bar_gap>>

SetBarGap(g) ==
    /\ CanEdit
    /\ bar_gap /= g
    /\ bar_gap' = g
    /\ edits' = edits + 1
    /\ Script(cond_count, uploaded_csv, rows, manual_y_max, bar_width, g)
    /\ UNCHANGED <<cond_count, uploaded_csv, rows, manual_y_max, bar_width>>

\* The file uploader: a file is uploaded, replaced or removed.  The default
\* text of row 1's text areas (lines 109, 114) depends on whether a file is
\* there; when it changes, streamlit either keeps what the two text areas
\* hold or resets both to the new default, depending on its version.
UploadCsv(csv) ==
    /\ CanEdit
    /\ uploaded_csv /= csv
    /\ uploaded_csv' = csv
    /\ \/ rows' = rows
       \/ /\ (csv = NoFile) /= (uploaded_csv = NoFile)
          /\ rows' = [rows EXCEPT ![1].input1 = DefV1(1, csv), ![1].input2 = DefV2(1, csv)]
          /\ rows' /= rows
    /\ edits' = edits + 1
    /\ Script(cond_count, csv, rows', manual_y_max, bar_width, bar_gap)
    /\ UNCHANGED <<cond_count, manual_y_max, bar_width, bar_gap>>

Next ==
    \/ FirstRun
    \/ AddCondition
    \/ RemoveCondition
    \/ \E i \in 1..cond_count, t \in EditTexts : EditInput1(i, t)
    \/ \E i \in 1..cond_count, t \in EditTexts : EditInput2(i, t)
    \/ \E i \in 1..cond_count, sg \in Sigs : EditSig(i, sg)
    \/ \E y \in YMaxChoices : SetManualYMax(y)
    \/ \E w \in Widths : SetBarWidth(w)
    \/ \E g \in Gaps : SetBarGap(g)
    \/ \E csv \in {NoFile} \cup {<<f>> : f \in CsvChoices} : UploadCsv(csv)

Spec == Init /\ [][Next]_vars

\* --------------------------------------------- one run, widgets enumerated
\* The specifications below start from a session whose widgets already hold
\* what the user entered, and run the script once on them.
Entry(t1, t2, sg) == [input1 |-> t1, input2 |-> t2, sig |-> sg]
RowOf(i, e) == [name |-> DefName(i), sig |-> e.sig, input1 |-> e.input1, input2 |-> e.input2]

Pending ==
    /\ edits = 0
    /\ pc = "pending"
    /\ NoOutput

\* Rows for the rendering: both groups with a label, one group without a
\* label (the other block invalid), only the first group with a label, only
\* the second group, negative, with a label, and a row without any value
\* (invalid and blank) with a label.
RowChoices ==
    {Entry(T100, T80, "**"),
     Entry(T7, TBad, ""),
     Entry(T7, <<>>, "ns"),
     Entry(<<>>, TNeg, "**"),
     Entry(TBad, TBlank, "*")}
Layouts == {<<DefaultBarWidth, DefaultBarGap>>, <<150, 0>>, <<10, 100>>}

InitRender ==
    /\ cond_count \in 1..MaxRunCount
    /\ uploaded_csv \in {NoFile} \cup {<<f>> : f \in CsvChoices}
    /\ \E c \in [1..cond_count -> RowChoices] : rows = [i \in 1..cond_count |-> RowOf(i, c[i])]
    /\ manual_y_max \in YMaxChoices
    /\ \E l \in Layouts : bar_width = l[1] /\ bar_gap = l[2]
    /\ Pending

SpecRender == InitRender /\ [][FirstRun]_vars

\* Every file of at most MaxCsvRows rows over two group names and the cells
\* missing, 1 and 2, under a header with or without the two columns, and a
\* file that does not parse; row 1 holds a value or nothing.
RECURSIVE SeqsUpTo(_, _)
SeqsUpTo(S, n) ==
    IF n = 0 THEN {<<>>}
    ELSE SeqsUpTo(S, n - 1) \cup {Append(q, x) : q \in {p \in SeqsUpTo(S, n - 1) : Len(p) = n - 1}, x \in S}

CsvCells == {Cell(g, v) : g \in {"X", "Y"}, v \in {<<>>, <<1>>, <<2>>}}
CsvHeaders == {{"Group", "Value"}, {"Group", "Value", "Area"}, {"Group"}, {"Value"}, {"Name", "Score"}}
CsvFiles ==
    {File(TRUE, h, r) : h \in CsvHeaders, r \in SeqsUpTo(CsvCells, MaxCsvRows)}
        \cup {File(FALSE, {}, <<>>)}

InitCsv ==
    /\ cond_count = InitialCount
    /\ uploaded_csv \in {<<f>> : f \in CsvFiles}
    /\ \E e \in {Entry(<<>>, <<>>, ""), Entry(TNeg, <<>>, "**")} :
          rows = [i \in 1..InitialCount |-> IF i = 2 THEN RowOf(i, e) ELSE DefRow(i, uploaded_csv)]
    /\ manual_y_max = 0
    /\ bar_width = DefaultBarWidth
    /\ bar_gap = DefaultBarGap
    /\ Pending

SpecCsv == InitCsv /\ [][FirstRun]_vars

\* Every text of at most MaxLen characters in one text area of row 1, a
\* chosen text in the other, and a second row with or without values.
ParseChars == {"1", "2", "-", ",", NL, " ", "x"}
ParseTexts == SeqsUpTo(ParseChars, MaxLen)
OtherTexts == {<<>>, T7, TBad}

InitParse ==
    /\ cond_count = 2
    /\ uploaded_csv = NoFile
    /\ \E a \in ParseTexts, b \in OtherTexts, sw \in BOOLEAN,
          e \in {Entry(T100, TBad, "**"), Entry(TBlank, TBad, "")} :
          rows = <<RowOf(1, IF sw THEN Entry(a, b, "") ELSE Entry(b, a, "")), RowOf(2, e)>>
    /\ manual_y_max = 0
    /\ bar_width = DefaultBarWidth
    /\ bar_gap = DefaultBarGap
    /\ Pending

SpecParse == InitParse /\ [][FirstRun]_vars

\* -------------------------------------------------------------- properties
\* The values of a condition, and of a whole condition list
CondValues(d) == Range(d.g1) \cup Range(d.g2)
ListValues(cdl) == UNION {CondValues(cdl[k]) : k \in 1..Len(cdl)}
IsMax(m, S) == m \in S /\ \A x \in S : x <= m
BothGroups(d) == d.g1 /= <<>> /\ d.g2 /= <<>>
OneGroup(d) == (d.g1 /= <<>>) /= (d.g2 /= <<>>)

\* C1: in one render, the y-axis upper limit applied to every subplot is one
\* value: the manual override when it is > 0, and otherwise 1.35 times the
\* maximum of all values of both groups of all conditions.
C1_SharedYLimit ==
    \A k \in 1..Len(axes) :
        IF manual_y_max > 0 THEN axes[k].ylim = manual_y_max * 100
        ELSE \E m \in ListValues(cond_data_list) :
                IsMax(m, ListValues(cond_data_list)) /\ axes[k].ylim = m * 135

\* C1 where some value exists: the limit is the override or 1.35 times the
\* maximum; where none exists the script's limit is 100.
C1_LimitWhenValuesExist ==
    \A k \in 1..Len(axes) :
        IF manual_y_max > 0 THEN axes[k].ylim = manual_y_max * 100
        ELSE IF ListValues(cond_data_list) = {} THEN axes[k].ylim = 100 * 100
        ELSE \E m \in ListValues(cond_data_list) :
                IsMax(m, ListValues(cond_data_list)) /\ axes[k].ylim = m * 135

\* C2: the positions of a condition's groups depend on its own groups only:
\* with both groups, position(group1) = -(width/2 + gap/2) and
\* position(group2) = +(width/2 + gap/2), so they sum to 0 and differ by
\* width + gap; with one group, that group's position is 0.
C2_Positions ==
    \A k \in 1..Len(axes) :
        /\ BothGroups(cond_data_list[k]) =>
              /\ axes[k].tks = <<0 - (bar_width + bar_gap), bar_width + bar_gap>>
              /\ axes[k].tks = <<axes[k].pos1, axes[k].pos2>>
              /\ axes[k].tks[1] + axes[k].tks[2] = 0
              /\ axes[k].tks[2] - axes[k].tks[1] = 2 * (bar_width + bar_gap)
        /\ OneGroup(cond_data_list[k]) => axes[k].tks = <<0>>

\* A figure with a two-group subplot beside a one-group subplot
C2_Witness ==
    /\ fig_shown
    /\ \E j, k \in 1..Len(axes) :
          /\ BothGroups(cond_data_list[j]) /\ OneGroup(cond_data_list[k])
          /\ axes[j].tks[2] > 0

\* C3: whenever no numeric value exists in any group of any condition at
\* render time, the run ends in the 'awaiting input' state and no figure is
\* rendered or offered for download.
C3_EmptyAwaitsInput ==
    (pc = "done" /\ ListValues(cond_data_list) = {}) =>
        info_shown /\ ~fig_shown /\ ~download_offered /\ axes = <<>>

\* C4: every condition that reaches the rendering engine, from the CSV or
\* from manual entry, has at least one non-empty value sequence.
C4_NoEmptyCondition ==
    \A k \in 1..Len(cond_data_list) :
        cond_data_list[k].g1 /= <<>> \/ cond_data_list[k].g2 /= <<>>

\* C5: a bracket is drawn for a condition iff its label is non-empty; its
\* height is local_max * 1.15, local_max the maximum over the values of both
\* groups, an absent group counting as 0; it spans (position(group1),
\* position(group2)) with both groups and otherwise +/-0.2 around the single
\* group's position.
LocalMaxSet(d) == CondValues(d) \cup (IF BothGroups(d) THEN {} ELSE {0})

C5_Bracket ==
    \A k \in 1..Len(axes) :
        LET d == cond_data_list[k]
            b == axes[k].bracket
        IN  /\ (b /= <<>>) <=> (d.sig /= "")
            /\ b /= <<>> =>
                  /\ Len(b) = 1
                  /\ b[1].label = d.sig
                  /\ \E m \in LocalMaxSet(d) :
                        IsMax(m, LocalMaxSet(d)) /\ b[1].y_bracket = m * 115
                  /\ BothGroups(d) =>
                        b[1].lx_s = axes[k].tks[1] /\ b[1].lx_e = axes[k].tks[2]
                  /\ OneGroup(d) =>
                        b[1].lx_s = axes[k].tks[1] - 40 /\ b[1].lx_e = axes[k].tks[1] + 40

\* A figure with a bracket over two groups, a bracket over a single group
\* of negative values, and a subplot without bracket
C5_Witness ==
    /\ fig_shown
    /\ \E i, j, k \in 1..Len(axes) :
          /\ BothGroups(cond_data_list[i]) /\ axes[i].bracket /= <<>>
          /\ OneGroup(cond_data_list[j]) /\ axes[j].bracket /= <<>>
          /\ \A x \in CondValues(cond_data_list[j]) : x < 0
          /\ axes[k].bracket = <<>>

\* C6: a malformed uploaded CSV (unparseable, or lacking the Group or the
\* Value column) surfaces a reported error and contributes no condition.
Malformed(file) ==
    ~file.parses \/ "Group" \notin file.columns \/ "Value" \notin file.columns

C6_MalformedReported ==
    (pc = "done" /\ uploaded_csv /= NoFile /\ Malformed(uploaded_csv[1])) =>
        /\ sidebar_msg = "error"
        /\ \A k \in 1..Len(cond_data_list) :
              cond_data_list[k].name \in {rows[i].name : i \in 1..cond_count}

\* C9: an exception raised at any step of a render attempt is reported, and
\* in that run no image is emitted: a run never both shows the figure and
\* reports a visualization error.
C9_ErrorMeansNoImage ==
    vis_error => ~fig_shown /\ ~download_offered

\* C7: a CSV with the columns Group and Value yields one condition per
\* distinct Group value, in order of first appearance, whose group1 values
\* are that group's Value entries (the cells that hold a value) in row order
\* and whose group2 values and label are empty; they precede every manually
\* entered condition.
CsvGroups(file) == {file.rows[k].Group : k \in 1..Len(file.rows)}
FirstRowOf(file, g) ==
    CHOOSE k \in 1..Len(file.rows) :
        file.rows[k].Group = g /\ \A j \in 1..(k - 1) : file.rows[j].Group /= g
ValueRows(file, g) ==
    {k \in 1..Len(file.rows) : file.rows[k].Group = g /\ file.rows[k].Value /= <<>>}
KthOf(I, q) == CHOOSE x \in I : Cardinality({y \in I : y < x}) = q - 1

Separators == {",", NL}
IsSegment(t, a, b) ==
    /\ a <= b
    /\ \A k \in a..b : t[k] \notin Separators
    /\ a = 1 \/ t[a - 1] \in Separators
    /\ b = Len(t) \/ t[b + 1] \in Separators
Inked(t, a, b) == {k \in a..b : t[k] \notin Whitespace}
IsNumber(t, lo, hi) ==
    \A k \in lo..hi : t[k] \in DigitSet \/ (k = lo /\ t[k] = "-" /\ hi > lo)
HasBadToken(t) ==
    \E a, b \in 1..Len(t) :
        /\ IsSegment(t, a, b)
        /\ Inked(t, a, b) /= {}
        /\ \E lo, hi \in Inked(t, a, b) :
              /\ \A k \in Inked(t, a, b) : lo <= k /\ k <= hi
              /\ ~IsNumber(t, lo, hi)

FormatError(i, g) == [row |-> i, name |-> rows[i].name, group |-> g]
Blanked(i, g) ==
    IF g = 1 THEN [rows EXCEPT ![i].input1 = <<>>] ELSE [rows EXCEPT ![i].input2 = <<>>]
BlockText(i, g) == IF g = 1 THEN rows[i].input1 ELSE rows[i].input2
BlockValues(d, g) == IF g = 1 THEN d.g1 ELSE d.g2

C8_BadBlockIsolated ==
    pc = "done" =>
        \A i \in 1..cond_count, g \in {1, 2} :
            /\ FormatError(i, g) \in format_errors <=> HasBadToken(BlockText(i, g))
            /\ HasBadToken(BlockText(i, g)) =>
                  /\ \A k \in 1..Len(cond_data_list) :
                        cond_data_list[k].name = rows[i].name =>
                            BlockValues(cond_data_list[k], g) = <<>>
                  /\ cond_data_list = DataPipeline(uploaded_csv, Blanked(i, g), cond_count)
                  /\ format_errors \ {FormatError(i, g)} = ManualErrors(Blanked(i, g), cond_count)
                  /\ cond_data_list /= <<>> => ~info_shown

\* Row 1 with a bad first block and a good second block, drawn from its
\* second block, beside row 2 drawn from its first block
C8_Witness ==
    /\ fig_shown
    /\ HasBadToken(rows[1].input1)
    /\ HasBadToken(rows[2].input2)
    /\ Len(cond_data_list) = 2
    /\ cond_data_list[1].g1 = <<>> /\ cond_data_list[1].g2 /= <<>>
    /\ cond_data_list[2].g1 /= <<>> /\ cond_data_list[2].g2 = <<>>

\* C10: from the initial count of 3 the row counter is always >= 1 under
\* add_condition and remove_condition; remove_condition at count 1 leaves it
\* unchanged, and add_condition followed by remove_condition restores the
\* count.
C10_Counter ==
    /\ [](cond_count >= 1)
    /\ [](cond_count = 1 => remove_condition(cond_count) = cond_count)
    /\ [][cond_count' \in {cond_count, add_condition(cond_count), remove_condition(cond_count)}]_vars
    /\ [][cond_count' = add_condition(cond_count) => remove_condition(cond_count') = cond_count]_vars

\* The counter taken down to 1 by two removals
C10_Witness == pc = "done" /\ cond_count = 1

====
